---- MODULE Spec2Model ----
(***************************************************************************)
(* Nearby Subs Finder (nearby_subs_streamlit.py): the schema normalizer    *)
(* (normalize_columns), the loader (load_excel), the great-circle distance *)
(* (miles_distance) and the proximity query (calculate_nearby).            *)
(*                                                                         *)
(* Text is modelled as a sequence of one-character strings so that         *)
(* str.strip() and str.lower() are computed, not assumed.  A spreadsheet   *)
(* cell is blank (NaN), text or a number.  Distances are in thousandths of *)
(* a mile (the float result of miles_distance, truncated).                 *)
(***************************************************************************)
EXTENDS Integers, Sequences, FiniteSets, TLC

\* Largest number of data rows of a row-variant sheet.
MaxRows == 3

----------------------------------------------------------------------------
(* Text *)

UpperCase == <<"A","B","C","D","E","F","G","H","I","J","K","L","M",
               "N","O","P","Q","R","S","T","U","V","W","X","Y","Z">>
LowerCase == <<"a","b","c","d","e","f","g","h","i","j","k","l","m",
               "n","o","p","q","r","s","t","u","v","w","x","y","z">>

\* str.lower() on one character
lower_char(c) ==
  IF \E i \in 1..26 : UpperCase[i] = c
  THEN LowerCase[CHOOSE i \in 1..26 : UpperCase[i] = c]
  ELSE c

\* str.lower()
lower(s) == [i \in 1..Len(s) |-> lower_char(s[i])]

IsSpace(c) == c \in {" ", "\t", "\n"}

SetMin(S) == CHOOSE x \in S : \A y \in S : x <= y
SetMax(S) == CHOOSE x \in S : \A y \in S : y <= x

\* str.strip(): leading and trailing whitespace removed
strip(s) ==
  LET keep == {i \in 1..Len(s) : ~IsSpace(s[i])}
  IN  IF keep = {} THEN <<>> ELSE SubSeq(s, SetMin(keep), SetMax(keep))

\* x in list
InSeq(x, s) == \E i \in 1..Len(s) : s[i] = x

\* the positions of S in ascending order: what a comprehension or a boolean
\* mask keeps, in the order of the original
RECURSIVE Ascending(_)
Ascending(S) ==
  IF S = {} THEN <<>> ELSE <<SetMin(S)>> \o Ascending(S \ {SetMin(S)})

----------------------------------------------------------------------------
(* Cells *)

NaN    == [k |-> "nan", s |-> <<>>, n |-> 0]
Str(s) == [k |-> "str", s |-> s,    n |-> 0]
Num(n) == [k |-> "num", s |-> <<>>, n |-> n]

isna(c) == c.k = "nan"

Digits == <<"0","1","2","3","4","5","6","7","8","9">>
IsDigit(c) == \E d \in 1..10 : Digits[d] = c
DigitVal(c) == (CHOOSE d \in 1..10 : Digits[d] = c) - 1

RECURSIVE ParseNat(_)
ParseNat(s) ==
  IF Len(s) = 0 THEN 0
  ELSE 10 * ParseNat(SubSeq(s, 1, Len(s) - 1)) + DigitVal(s[Len(s)])

\* pd.to_numeric(errors="coerce") on one cell: numbers stay, text that is a
\* plain decimal integer is parsed, anything else becomes NaN
to_numeric(c) ==
  CASE c.k = "num" -> c
    [] c.k = "nan" -> NaN
    [] c.k = "str" ->
         LET neg  == Len(c.s) > 0 /\ c.s[1] = "-"
             body == IF neg THEN Tail(c.s) ELSE c.s
         IN  IF Len(body) > 0 /\ \A i \in 1..Len(body) : IsDigit(body[i])
             THEN Num(IF neg THEN 0 - ParseNat(body) ELSE ParseNat(body))
             ELSE NaN

\* Series.astype(str).str.strip() on one cell of a text column: a blank cell
\* becomes the text "nan"
astype_str_strip(c) ==
  CASE c.k = "str" -> Str(strip(c.s))
    [] c.k = "nan" -> Str(<<"n","a","n">>)

----------------------------------------------------------------------------
(* Column names *)

cSubName   == <<"S","u","b"," ","N","a","m","e">>
cSub       == <<"S","u","b">>
cOT        == <<"O","T">>
cCityState == <<"C","i","t","y","/","S","t","a","t","e">>
cDistance  == <<"D","i","s","t","a","n","c","e"," ","(","m","i",")">>
cLattitude == <<"L","a","t","t","i","t","u","d","e">>
cLongitude == <<"L","o","n","g","i","t","u","d","e">>

----------------------------------------------------------------------------
(* DataFrame: column labels, row labels (index) and one cell sequence per  *)
(* row, aligned with the column labels.                                    *)

DataFrame(columns, index, data) ==
  [columns |-> columns, index |-> index, data |-> data]

NoFrame == DataFrame(<<>>, <<>>, <<>>)

\* position of column label c (labels are unique in every frame built here)
ColPos(df, c) == CHOOSE j \in 1..Len(df.columns) : df.columns[j] = c

\* df[c] = value: a new column, the same value in every row, appended
AddColumn(df, c, value) ==
  DataFrame(Append(df.columns, c), df.index,
            [r \in 1..Len(df.data) |-> Append(df.data[r], value)])

\* the cells of column position j, top to bottom
ColumnCells(df, j) == [r \in 1..Len(df.data) |-> df.data[r][j]]

----------------------------------------------------------------------------
(* normalize_columns *)

NameCands == << <<"s","u","b"," ","n","a","m","e">>,
                <<"s","u","b","_","n","a","m","e">>,
                <<"n","a","m","e">> >>
LatCands  == << <<"l","a","t","t","i","t","u","d","e">>,
                <<"l","a","t","i","t","u","d","e">>,
                <<"l","a","t">> >>
LonCands  == << <<"l","o","n","g","i","t","u","d","e">>,
                <<"l","o","n","g">>,
                <<"l","n","g">>,
                <<"l","o","n">> >>
OutOfTown == <<"o","u","t"," ","o","f"," ","t","o","w","n">>

required == <<cSubName, cLattitude, cLongitude>>

\* df.columns = [str(c).strip() for c in df.columns]
StripColumns(columns) == [j \in 1..Len(columns) |-> strip(columns[j])]

\* key in cols_lower, for cols_lower = {c.lower(): c for c in df.columns}
InColsLower(columns, key) == \E j \in 1..Len(columns) : lower(columns[j]) = key

\* cols_lower[key]: a later column replaces an earlier one with the same key
cols_lower(columns, key) ==
  columns[SetMax({j \in 1..Len(columns) : lower(columns[j]) = key})]

\* MapFirst without the break: the last candidate present wins
MapFirst_last(cands, columns, canon) ==
  LET hits == {k \in 1..Len(cands) :
                 InColsLower(columns, cands[k]) /\ ~InSeq(canon, columns)}
  IN  IF hits = {} THEN <<>>
      ELSE << [from |-> cols_lower(columns, cands[SetMax(hits)]), to |-> canon] >>

\* for cand in cands: if cand in cols_lower and canon not in df.columns:
\*     col_map[cols_lower[cand]] = canon; break
\* the entries this loop adds to col_map (none or one)
MapFirst(cands, columns, canon) ==
  LET hits == {k \in 1..Len(cands) :
                 InColsLower(columns, cands[k]) /\ ~InSeq(canon, columns)}
  IN  IF hits = {} THEN <<>>
      ELSE << [from |-> cols_lower(columns, cands[SetMin(hits)]), to |-> canon] >>

\* col_map after the three loops and the "out of town" rule
col_map(columns) ==
     MapFirst(NameCands, columns, cSubName)
  \o MapFirst(LatCands, columns, cLattitude)
  \o MapFirst(LonCands, columns, cLongitude)
  \o (IF InColsLower(columns, OutOfTown)
      THEN << [from |-> cols_lower(columns, OutOfTown), to |-> cOT] >>
      ELSE <<>>)

\* df.rename(columns=col_map) applied to one label (a later entry of a dict
\* with the same key would replace an earlier one)
Renamed(m, c) ==
  LET hits == {k \in 1..Len(m) : m[k].from = c}
  IN  IF hits = {} THEN c ELSE m[SetMax(hits)].to

\* missing that stops at the first required column not found
missing_first(columns) ==
  LET idx == Ascending({k \in 1..Len(required) : ~InSeq(required[k], columns)})
  IN  IF idx = <<>> THEN <<>> ELSE << required[idx[1]] >>

\* missing = [c for c in required if c not in df.columns]
missing(columns) ==
  LET idx == Ascending({k \in 1..Len(required) : ~InSeq(required[k], columns)})
  IN  [k \in 1..Len(idx) |-> required[idx[k]]]

\* if "OT" not in df.columns: df["OT"] = ""; the same for "Sub"
FillOptional(df) ==
  LET d1 == IF InSeq(cOT, df.columns) THEN df ELSE AddColumn(df, cOT, Str(<<>>))
  IN  IF InSeq(cSub, d1.columns) THEN d1 ELSE AddColumn(d1, cSub, Str(<<>>))

\* normalize_columns(df).  The result records what the call leaves behind:
\*   arg     the caller's DataFrame object after the call (line 30 assigns its
\*           columns in place; without a rename, lines 65 and 68 add columns to
\*           that same object; df.rename returns a new object)
\*   raised  whether ValueError was raised, with its missing and found lists
\*   ret     the returned frame (NoFrame when raised)
normalize_columns(df) ==
  LET stripped == [df EXCEPT !.columns = StripColumns(df.columns)]
      m        == col_map(stripped.columns)
      renamed  == IF m # <<>>
                  THEN [stripped EXCEPT !.columns =
                          [j \in 1..Len(stripped.columns) |->
                             Renamed(m, stripped.columns[j])]]
                  ELSE stripped
      miss     == missing(renamed.columns)
  IN  IF miss # <<>>
      THEN [arg |-> stripped, raised |-> TRUE, missing |-> miss,
            found |-> renamed.columns, ret |-> NoFrame]
      ELSE [arg |-> IF m # <<>> THEN stripped ELSE FillOptional(renamed),
            raised |-> FALSE, missing |-> <<>>, found |-> <<>>,
            ret |-> FillOptional(renamed)]

----------------------------------------------------------------------------
(* load_excel *)

\* the rows of df at the positions in keep, labels and order kept
FilterRows(df, keep) ==
  LET idx == Ascending(keep)
  IN  DataFrame(df.columns,
                [k \in 1..Len(idx) |-> df.index[idx[k]]],
                [k \in 1..Len(idx) |-> df.data[idx[k]]])

\* df.dropna(subset=subset)
dropna(df, subset) ==
  FilterRows(df, {r \in 1..Len(df.data) :
    \A k \in 1..Len(subset) : ~isna(df.data[r][ColPos(df, subset[k])])})

\* df[c] = df[c].astype(str).str.strip()
StrColumn(df, c) ==
  LET j == ColPos(df, c)
  IN  [df EXCEPT !.data =
         [r \in 1..Len(df.data) |->
            [df.data[r] EXCEPT ![j] = astype_str_strip(df.data[r][j])]]]

\* df[c] = pd.to_numeric(df[c], errors="coerce")
NumColumn(df, c) ==
  LET j == ColPos(df, c)
  IN  [df EXCEPT !.data =
         [r \in 1..Len(df.data) |->
            [df.data[r] EXCEPT ![j] = to_numeric(df.data[r][j])]]]

\* lines 96-105 of load_excel, on the frame normalize_columns returned
clean(df0) ==
  LET d1 == dropna(df0, <<cSubName, cLattitude, cLongitude>>)
      d2 == StrColumn(d1, cSubName)
      d3 == StrColumn(d2, cSub)
      d4 == NumColumn(d3, cLattitude)
      d5 == NumColumn(d4, cLongitude)
      d6 == dropna(d5, <<cLattitude, cLongitude>>)
  IN  IF InSeq(cCityState, d6.columns) THEN d6
      ELSE AddColumn(d6, cCityState, Str(<<>>))

\* load_excel on the frame pd.read_excel returned: the normalize_columns call
\* (norm) and, unless it raised, the cleaned table (df)
load_excel(frame) ==
  LET nz == normalize_columns(frame)
  IN  [norm |-> nz,
       df   |-> IF nz.raised THEN NoFrame ELSE clean(nz.ret)]

----------------------------------------------------------------------------
(* miles_distance *)

Abs(x) == IF x < 0 THEN 0 - x ELSE x

\* 2 * R * asin(sqrt(max(0, a))) with R = 3958.7613 and
\*   a = 0.5 - cos(dlat)/2 + cos(lat1) * cos(lat2) * (1 - cos(dlon))/2,
\* in thousandths of a mile, tabulated from the source's formula for whole
\* degrees: latitudes 0 and 1, longitude differences 0, 1, 2, 9, 10, 11.
\* a depends on dlat and dlon through their cosines (so through their absolute
\* values) and on the latitudes through the product of their cosines.
miles_distance(lat1, lon1, lat2, lon2) ==
  LET dlat == Abs(lat2 - lat1)
      dlon == Abs(lon2 - lon1)
  IN  CASE dlat = 0 /\ lat1 = 0 ->
             (CASE dlon = 0  -> 0
                [] dlon = 1  -> 69093
                [] dlon = 2  -> 138186
                [] dlon = 9  -> 621840
                [] dlon = 10 -> 690934
                [] dlon = 11 -> 760027)
        [] dlat = 0 /\ lat1 = 1 ->
             (CASE dlon = 0  -> 0
                [] dlon = 1  -> 69082
                [] dlon = 2  -> 138165
                [] dlon = 9  -> 621745
                [] dlon = 10 -> 690828
                [] dlon = 11 -> 759911)
        [] dlat = 1 /\ lat1 + lat2 = 1 ->
             (CASE dlon = 0  -> 69093
                [] dlon = 1  -> 97710
                [] dlon = 2  -> 154491
                [] dlon = 9  -> 625636
                [] dlon = 10 -> 694345
                [] dlon = 11 -> 763123)

----------------------------------------------------------------------------
(* calculate_nearby *)

\* df.at[i, c]: the cell of column c in the row labelled i
At(df, i, c) ==
  df.data[CHOOSE r \in 1..Len(df.index) : df.index[r] = i][ColPos(df, c)]

LookupColumn(search_by) == IF search_by = "sub" THEN cSub ELSE cSubName

\* Matches that compares the Sub Name column whatever search_by says
Matches_by_name(df, target_value, search_by) ==
  LET j   == ColPos(df, cSubName)
      idx == Ascending({r \in 1..Len(df.data) :
                          lower(df.data[r][j].s) = lower(target_value)})
  IN  [k \in 1..Len(idx) |-> df.index[idx[k]]]

\* df.index[df[col].str.lower() == str(target_value).lower()].tolist()
Matches(df, target_value, search_by) ==
  LET j   == ColPos(df, LookupColumn(search_by))
      idx == Ascending({r \in 1..Len(df.data) :
                          lower(df.data[r][j].s) = lower(target_value)})
  IN  [k \in 1..Len(idx) |-> df.index[idx[k]]]

\* i = rows[-1]
FirstMatch_last(rows) == rows[Len(rows)]

\* i = rows[0]
FirstMatch(rows) == rows[1]

\* d < radius_miles
WithinRadius_strict(d, radius_miles) == d < radius_miles

\* radius_miles <= d
WithinRadius_reversed(d, radius_miles) == radius_miles <= d

\* d <= radius_miles
WithinRadius(d, radius_miles) == d <= radius_miles

\* the columns of the frame returned when no row matches (line 117)
NotFoundColumns ==
  <<cSub, cSubName, cOT, cCityState, cDistance, cLattitude, cLongitude>>

\* the columns of pd.DataFrame(out_rows) for a non-empty out_rows: the keys
\* of the appended dicts, in the order written (lines 129-137)
OutRowColumns ==
  <<cSub, cSubName, cOT, cCityState, cDistance, cLattitude, cLongitude>>

\* the columns of the frame built when no row is within the radius (line 144)
EmptyOutColumns ==
  <<cSubName, cSub, cOT, cCityState, cDistance, cLattitude, cLongitude>>

\* the dict appended for row position r of df at distance d; "row" records
\* the label of the source row (the output frame itself is re-indexed)
OutRow(df, r, d) ==
  [Sub       |-> df.data[r][ColPos(df, cSub)],
   SubName   |-> df.data[r][ColPos(df, cSubName)],
   OT        |-> df.data[r][ColPos(df, cOT)],
   CityState |-> df.data[r][ColPos(df, cCityState)],
   Distance  |-> d,
   Lattitude |-> df.data[r][ColPos(df, cLattitude)],
   Longitude |-> df.data[r][ColPos(df, cLongitude)],
   row       |-> df.index[r]]

\* the distance of row position r of df from (lat0, lon0)
RowDistance(df, r, lat0, lon0) ==
  miles_distance(lat0, lon0, df.data[r][ColPos(df, cLattitude)].n,
                             df.data[r][ColPos(df, cLongitude)].n)

\* the loop over df.iterrows() (lines 123-137)
out_rows(df, i, lat0, lon0, radius_miles) ==
  LET idx == Ascending({r \in 1..Len(df.data) :
               /\ df.index[r] # i
               /\ WithinRadius(RowDistance(df, r, lat0, lon0), radius_miles)})
  IN  [k \in 1..Len(idx) |-> OutRow(df, idx[k], RowDistance(df, idx[k], lat0, lon0))]

\* out.sort_values("Distance (mi)", ascending=True): kind defaults to
\* "quicksort", which is not a stable sort, so rows of equal distance come
\* out in an order the call does not determine: every ascending order of
\* the rows is a possible result
sort_values(rows) ==
  LET n == Len(rows)
      perms == {p \in [1..n -> 1..n] : \A a, b \in 1..n : a # b => p[a] # p[b]}
  IN  {[k \in 1..n |-> rows[p[k]]] :
         p \in {q \in perms :
                  \A k \in 1..(n - 1) : rows[q[k]].Distance <= rows[q[k + 1]].Distance}}

None == [isNone |-> TRUE, rows |-> <<>>]

\* center_point (lines 147-155): a one-row frame
center_point(df, i, lat0, lon0) ==
  [isNone |-> FALSE,
   rows   |-> << [Sub       |-> At(df, i, cSub),
                  SubName   |-> At(df, i, cSubName),
                  OT        |-> At(df, i, cOT),
                  CityState |-> At(df, i, cCityState),
                  Distance  |-> 0,
                  Lattitude |-> lat0,
                  Longitude |-> lon0,
                  row       |-> i] >>]

\* calculate_nearby(df, target_value, radius_miles, search_by): the set of
\* (out, center_point) pairs the call can return
calculate_nearby(df, target_value, radius_miles, search_by) ==
  LET rows == Matches(df, target_value, search_by)
  IN  IF rows = <<>>
      THEN {[out |-> [columns |-> NotFoundColumns, rows |-> <<>>], center |-> None]}
      ELSE LET i    == FirstMatch(rows)
               lat0 == At(df, i, cLattitude).n
               lon0 == At(df, i, cLongitude).n
               kept == out_rows(df, i, lat0, lon0, radius_miles)
           IN  IF kept # <<>>
               THEN {[out    |-> [columns |-> OutRowColumns, rows |-> sorted],
                      center |-> center_point(df, i, lat0, lon0)] :
                       sorted \in sort_values(kept)}
               ELSE {[out    |-> [columns |-> EmptyOutColumns, rows |-> <<>>],
                      center |-> center_point(df, i, lat0, lon0)]}

----------------------------------------------------------------------------
(* Inputs: the sheets read and the queries asked *)

\* a sheet as pd.read_excel returns it: RangeIndex row labels 0..n-1
ReadExcel(columns, data) ==
  DataFrame(columns, [r \in 1..Len(data) |-> r - 1], data)

hSubName    == cSubName
hSub_name   == <<"s","u","b","_","n","a","m","e"," ">>
hNAME       == <<" ","N","A","M","E">>
hLattitude  == cLattitude
hLATTITUDE  == <<"L","A","T","T","I","T","U","D","E"," ">>
hLatitude   == <<"L","a","t","i","t","u","d","e">>
hLat        == <<" ","l","a","t">>
hLongitude  == cLongitude
hLNG        == <<"L","N","G">>
hLong       == <<"L","o","n","g"," ">>
hLon        == <<"l","o","n">>
hOutOfTown  == <<"O","u","t"," ","o","f"," ","T","o","w","n">>

\* header-variant sheets: which headers are present, in this order
IdHeaders    == { <<>>, <<hSubName>>, <<hSub_name>>, <<hNAME>> }
LatPool      == { hLattitude, hLATTITUDE, hLatitude, hLat }
LatHeaders   == { <<>> } \cup { <<h>> : h \in LatPool }
                \cup { gh \in LatPool \X LatPool : gh[1] # gh[2] }
LonHeaders   == { <<>>, <<hLongitude>>, <<hLNG>>, <<hLong, hLon>> }
OtherHeaders == { <<>>, <<cSub>>, <<hOutOfTown>>, <<cSub, hOutOfTown, cCityState>> }

\* the two data rows of a header-variant sheet, column by column: each
\* header has its own cells, so that two latitude candidates never agree
HeaderCells(h) ==
  CASE h \in {hSubName, hSub_name, hNAME} -> <<Str(<<"A">>), Str(<<" ","b">>)>>
    [] h = hLattitude -> <<Num(0), Num(1)>>
    [] h = hLATTITUDE -> <<Num(1), Num(1)>>
    [] h = hLatitude  -> <<Num(1), Num(0)>>
    [] h = hLat       -> <<Num(0), Num(0)>>
    [] h = hLongitude -> <<Num(0), Num(1)>>
    [] h = hLNG       -> <<Num(1), Num(0)>>
    [] h = hLong      -> <<Num(10), Num(0)>>
    [] h = hLon       -> <<Num(0), Num(0)>>
    [] h = cSub       -> <<Str(<<"S","1">>), NaN>>
    [] h = hOutOfTown -> <<Str(<<"Y">>), NaN>>
    [] h = cCityState -> <<Str(<<"X">>), NaN>>

HeaderSheets ==
  { ReadExcel(hs, [r \in 1..2 |-> [j \in 1..Len(hs) |-> HeaderCells(hs[j])[r]]]) :
      hs \in { a \o b \o c \o d : a \in IdHeaders, b \in LatHeaders,
                                   c \in LonHeaders, d \in OtherHeaders } }

\* row-variant sheets: canonical headers, 1..MaxRows rows of these kinds
\* (cells in the order Sub, Sub Name, Lattitude, Longitude)
RowKinds ==
  { << Str(<<"S","1">>), Str(<<"A">>),     Num(0),       Num(0)  >>,
    << Str(<<"s","1">>), Str(<<"a"," ">>), Num(0),       Num(1)  >>,
    << Str(<<"S","2">>), Str(<<"B">>),     Num(0),       Num(0 - 1) >>,
    << NaN,              Str(<<"B">>),     Str(<<"1">>), Num(10) >>,
    << Str(<<"S","1">>), NaN,              Num(0),       Num(0)  >>,
    << Str(<<"S","1">>), Str(<<" "," ">>), Num(0),       Num(1)  >>,
    << Str(<<"S","2">>), Str(<<"A">>),     Str(<<"x">>), Num(0)  >> }

RowSheets ==
  { ReadExcel(<<cSub, cSubName, cLattitude, cLongitude>>, data) :
      data \in UNION { [1..n -> RowKinds] : n \in 1..MaxRows } }

Sheets == HeaderSheets \cup RowSheets

Targets   == { <<"a">>, <<"B">>, <<"S","1">>, <<>> }
Radii     == { 50000, 69093, 700000 }
SearchBys == { "name", "sub" }

----------------------------------------------------------------------------
(* State *)

VARIABLES
  sheet,      \* the sheet as it is in the file
  frame,      \* the DataFrame object pd.read_excel returned, which load_excel
              \* passes to normalize_columns
  norm,       \* what the normalize_columns call left behind
  df,         \* the loaded table
  pc,         \* "start", "loaded", "stopped", "queried"
  target, radius, search_by,   \* the arguments of the last query
  out, center                  \* its results

vars == <<sheet, frame, norm, df, pc, target, radius, search_by, out, center>>

NoCall == [arg |-> NoFrame, raised |-> FALSE, missing |-> <<>>,
           found |-> <<>>, ret |-> NoFrame]
NoOut  == [columns |-> <<>>, rows |-> <<>>]

Init ==
  /\ sheet \in Sheets
  /\ frame = sheet
  /\ norm = NoCall
  /\ df = NoFrame
  /\ pc = "start"
  /\ target = <<>>
  /\ radius = 0
  /\ search_by = "name"
  /\ out = NoOut
  /\ center = None

\* df, sheets, used_sheet = load_excel(...); an exception stops the script
LoadExcel ==
  /\ pc = "start"
  /\ LET r == load_excel(frame)
     IN  /\ frame' = r.norm.arg
         /\ norm' = r.norm
         /\ df' = r.df
         /\ pc' = IF r.norm.raised THEN "stopped" ELSE "loaded"
  /\ UNCHANGED <<sheet, target, radius, search_by, out, center>>

\* results_df, center_df = calculate_nearby(df, target, radius, search_by)
Run(t, r, sb) ==
  /\ \E res \in calculate_nearby(df, t, r, sb) :
       /\ out' = res.out
       /\ center' = res.center
  /\ target' = t
  /\ radius' = r
  /\ search_by' = sb
  /\ pc' = "queried"
  /\ UNCHANGED <<sheet, frame, norm, df>>

\* the first query on a loaded table
Query ==
  /\ pc = "loaded"
  /\ \E t \in Targets, r \in Radii, sb \in SearchBys : Run(t, r, sb)

\* the radius changes and the query is run again
ChangeRadius ==
  /\ pc = "queried"
  /\ \E r \in Radii \ {radius} : Run(target, r, search_by)

\* the target changes and the query is run again
ChangeTarget ==
  /\ pc = "queried"
  /\ \E t \in Targets \ {target} : Run(t, radius, search_by)

\* the lookup field changes and the query is run again
ChangeSearchBy ==
  /\ pc = "queried"
  /\ \E sb \in SearchBys \ {search_by} : Run(target, radius, sb)

Next == LoadExcel \/ Query \/ ChangeRadius \/ ChangeTarget \/ ChangeSearchBy

Spec == Init /\ [][Next]_vars

----------------------------------------------------------------------------
(* Properties.  The statements below are written against the table and    *)
(* the arguments, not against the operators that compute the results.     *)

Queried == pc = "queried"
Loaded  == pc \in {"loaded", "queried"}

\* the positions of df whose lookup field equals the target key after
\* lowercasing both sides
MatchingPositions ==
  {r \in 1..Len(df.data) :
     lower(df.data[r][ColPos(df, LookupColumn(search_by))].s) = lower(target)}

CenterPosition == SetMin(MatchingPositions)

LatOf(r) == df.data[r][ColPos(df, cLattitude)].n
LonOf(r) == df.data[r][ColPos(df, cLongitude)].n

\* the labels of the rows other than the center row that lie within the
\* radius of the center, boundary included
ExpectedNeighbors ==
  {df.index[r] : r \in {q \in 1..Len(df.data) :
     /\ q # CenterPosition
     /\ miles_distance(LatOf(CenterPosition), LonOf(CenterPosition),
                       LatOf(q), LonOf(q)) <= radius}}

OutLabels == {out.rows[k].row : k \in 1..Len(out.rows)}

\* C1: when the target key matches a row, the neighbors are exactly the rows
\* at a position other than the first matching row whose distance from the
\* center is <= the radius, each once and with that distance; the center row
\* is never among them.
C1_NeighborsExact ==
  (Queried /\ MatchingPositions # {}) =>
     /\ OutLabels = ExpectedNeighbors
     /\ Len(out.rows) = Cardinality(ExpectedNeighbors)
     /\ df.index[CenterPosition] \notin OutLabels
     /\ \A k \in 1..Len(out.rows) :
          \E q \in 1..Len(df.data) :
             /\ df.index[q] = out.rows[k].row
             /\ out.rows[k].Distance =
                  miles_distance(LatOf(CenterPosition), LonOf(CenterPosition),
                                 LatOf(q), LonOf(q))

\* C1 witness: a neighbor exactly on the boundary, and another row carrying
\* the center's identifier and coordinates reported at distance 0.
C1_Witness ==
  /\ Queried /\ MatchingPositions # {}
  /\ \E k \in 1..Len(out.rows) : out.rows[k].Distance = radius
  /\ \E k \in 1..Len(out.rows) :
       /\ out.rows[k].Distance = 0
       /\ out.rows[k].SubName = center.rows[1].SubName
       /\ out.rows[k].row # center.rows[1].row

\* C2: the neighbors are in ascending order of distance, and two neighbors of
\* equal distance are in their original row order.
C2_SortedStable ==
  Queried =>
    \A k \in 1..(Len(out.rows) - 1) :
       /\ out.rows[k].Distance <= out.rows[k + 1].Distance
       /\ (out.rows[k].Distance = out.rows[k + 1].Distance
             => out.rows[k].row < out.rows[k + 1].row)

\* C3: when the target key equals the lookup field of no row, the neighbor
\* table is empty and the center is None.
C3_NotFound ==
  (Queried /\ MatchingPositions = {}) =>
     /\ out.rows = <<>>
     /\ center = None

\* C3 witness: a query by Sub code on a table of several rows, none matching.
C3_Witness ==
  /\ Queried /\ MatchingPositions = {}
  /\ search_by = "sub"
  /\ Len(df.data) >= 2
  /\ center.isNone

\* C4: the center is the first row, in table order, whose lookup field equals
\* the target key after lowercasing both sides; its distance is 0 and it
\* carries that row's Sub, OT, City/State and coordinates unchanged.
C4_CenterFirstMatch ==
  (Queried /\ MatchingPositions # {}) =>
     /\ ~center.isNone
     /\ center.rows =
          << [Sub       |-> df.data[CenterPosition][ColPos(df, cSub)],
              SubName   |-> df.data[CenterPosition][ColPos(df, cSubName)],
              OT        |-> df.data[CenterPosition][ColPos(df, cOT)],
              CityState |-> df.data[CenterPosition][ColPos(df, cCityState)],
              Distance  |-> 0,
              Lattitude |-> LatOf(CenterPosition),
              Longitude |-> LonOf(CenterPosition),
              row       |-> df.index[CenterPosition]] >>

\* C4 witness: two rows match the key, the first of them only after
\* lowercasing, and it is the center.
C4_Witness ==
  /\ Queried /\ Cardinality(MatchingPositions) >= 2
  /\ search_by = "name"
  /\ df.data[CenterPosition][ColPos(df, cSubName)].s # target
  /\ ~center.isNone
  /\ center.rows[1].row = df.index[CenterPosition]

\* C5: for the same table, target key and lookup field, every neighbor
\* returned with the radius of the query is returned with every larger radius.
C5_RadiusMonotone ==
  Queried =>
    \A r2 \in {r \in Radii : radius <= r} :
      \A res \in calculate_nearby(df, target, r2, search_by) :
        \A k \in 1..Len(out.rows) :
          \E m \in 1..Len(res.out.rows) : res.out.rows[m] = out.rows[k]

\* C5 witness: a query with a neighbor, for which a larger radius returns
\* more neighbors.
C5_Witness ==
  /\ Queried
  /\ Len(out.rows) >= 1
  /\ \E r2 \in {r \in Radii : radius < r} :
       \E res \in calculate_nearby(df, target, r2, search_by) :
          Len(res.out.rows) > Len(out.rows)

\* the headers of the sheet, trimmed and lowercased
TrimmedLower == {lower(strip(sheet.columns[j])) : j \in 1..Len(sheet.columns)}

\* the required canonical fields that no header of the sheet resolves
Unresolved ==
  (IF TrimmedLower \cap {<<"s","u","b"," ","n","a","m","e">>,
                         <<"s","u","b","_","n","a","m","e">>,
                         <<"n","a","m","e">>} = {} THEN {cSubName} ELSE {})
  \cup
  (IF TrimmedLower \cap {<<"l","a","t","t","i","t","u","d","e">>,
                         <<"l","a","t","i","t","u","d","e">>,
                         <<"l","a","t">>} = {} THEN {cLattitude} ELSE {})
  \cup
  (IF TrimmedLower \cap {<<"l","o","n","g","i","t","u","d","e">>,
                         <<"l","o","n","g">>, <<"l","n","g">>,
                         <<"l","o","n">>} = {} THEN {cLongitude} ELSE {})

\* C6: normalize_columns raises if and only if a required canonical field
\* cannot be resolved from the trimmed headers; the error names exactly the
\* unresolved fields, each once, and no table is returned.
C6_SchemaError ==
  (pc # "start") =>
     /\ norm.raised <=> (Unresolved # {})
     /\ norm.raised =>
          /\ {norm.missing[k] : k \in 1..Len(norm.missing)} = Unresolved
          /\ Len(norm.missing) = Cardinality(Unresolved)
          /\ norm.ret = NoFrame
          /\ df = NoFrame
          /\ pc = "stopped"

\* C6 witness: the error names two missing fields while the third is resolved.
C6_Witness ==
  /\ pc = "stopped"
  /\ norm.raised
  /\ Len(norm.missing) = 2
  /\ cLattitude \notin Unresolved

LatPriority == << <<"l","a","t","t","i","t","u","d","e">>,
                  <<"l","a","t","i","t","u","d","e">>,
                  <<"l","a","t">> >>

\* the candidates of LatPriority, by position, that some header matches
LatPresent == {k \in 1..3 : LatPriority[k] \in TrimmedLower}

\* C7: the canonical latitude column of the normalized table is the column
\* of a header that matches, after trimming and lowercasing, the first of
\* "lattitude", "latitude", "lat" that any header matches; it holds that
\* column's values, and it is the only column named Lattitude.
C7_LatitudePriority ==
  (pc # "start" /\ ~norm.raised) =>
     \E j \in 1..Len(sheet.columns) :
        /\ lower(strip(sheet.columns[j])) = LatPriority[SetMin(LatPresent)]
        /\ norm.ret.columns[j] = cLattitude
        /\ ColumnCells(norm.ret, j) = ColumnCells(sheet, j)
        /\ \A i \in 1..Len(norm.ret.columns) :
             norm.ret.columns[i] = cLattitude => i = j

\* C7 witness: two candidate headers of different priority, the lower one
\* first in the sheet, neither spelled exactly "Lattitude".
C7_Witness ==
  /\ pc # "start" /\ ~norm.raised
  /\ Cardinality(LatPresent) = 2
  /\ \E i, j \in 1..Len(sheet.columns) :
       /\ i < j
       /\ lower(strip(sheet.columns[i])) = LatPriority[SetMax(LatPresent)]
       /\ lower(strip(sheet.columns[j])) = LatPriority[SetMin(LatPresent)]
       /\ sheet.columns[j] # cLattitude

\* whether the sheet's row r has a non-blank identifier and coordinates that
\* parse as numbers; the columns are those normalize_columns resolved
GoodSourceRow(r) ==
  LET id  == sheet.data[r][ColPos(norm.ret, cSubName)]
      lat == sheet.data[r][ColPos(norm.ret, cLattitude)]
      lon == sheet.data[r][ColPos(norm.ret, cLongitude)]
  IN  /\ id.k = "str" /\ strip(id.s) # <<>>
      /\ ~isna(to_numeric(lat))
      /\ ~isna(to_numeric(lon))

\* C8: after loading, every record has a non-blank identifier and numeric
\* coordinates, and the records are exactly the source rows with a non-blank
\* identifier and parseable coordinates, in their original order.
C8_CleanRecords ==
  Loaded =>
     /\ \A r \in 1..Len(df.data) :
          /\ df.data[r][ColPos(df, cSubName)].k = "str"
          /\ df.data[r][ColPos(df, cSubName)].s # <<>>
          /\ df.data[r][ColPos(df, cLattitude)].k = "num"
          /\ df.data[r][ColPos(df, cLongitude)].k = "num"
     /\ LET good == Ascending({r \in 1..Len(sheet.data) : GoodSourceRow(r)})
        IN  df.index = [k \in 1..Len(good) |-> good[k] - 1]

\* C9: normalize_columns leaves the caller's table as it was: the same
\* header list, untrimmed whitespace included, and the same columns.
C9_InputUnchanged ==
  (pc # "start") => frame = sheet

\* C10: the neighbor table has the fields Sub, Sub Name, OT, City/State,
\* Distance (mi), Lattitude, Longitude, in this order, in every outcome.
C10_SameColumns ==
  Queried =>
    out.columns =
      <<cSub, cSubName, cOT, cCityState, cDistance, cLattitude, cLongitude>>

====
